---- MODULE Spec2Model ----
(***************************************************************************)
(* Conflict Lens (src/server.mjs): the two-stage discovery pipeline        *)
(* discoverConflicts, the generative client openaiJSON, the telemetry      *)
(* helper trackEvent and the two MCP tool handlers.                        *)
(*                                                                         *)
(* A JSON document is a record; an optional key that is missing is a key   *)
(* that is not in the record's DOMAIN.  A text returned by the upstream    *)
(* model is either a JSON encoding of a document or something JSON.parse   *)
(* rejects.  Each tool invocation is a run; a run's handler is suspended   *)
(* only at its awaits on fetch, so every action below is the code between  *)
(* two such awaits.                                                        *)
(***************************************************************************)
EXTENDS Integers, Sequences, FiniteSets, TLC

VARIABLES
    POSTHOG_API_KEY,  \* server.mjs:11, read once at startup
    POSTHOG_HOST,     \* server.mjs:12, read once at startup
    runs,             \* the invocations the boundary layer serves
    pc,               \* per run: where its handler is suspended
    tool,             \* per run: which tool was invoked
    args,             \* per run: the parsed tool arguments
    claimSet,         \* per run: discoverConflicts' local claimSet
    claims,           \* per run: discoverConflicts' local claims
    result,           \* per run: the handler's local result
    calls,            \* per run: the requests sent to api.openai.com, with responses
    posthog,          \* per run: the requests sent to the PostHog capture endpoint
    response,         \* per run: what the tool handler returned to the caller
    error             \* per run: the exception that left the handler

vars == <<POSTHOG_API_KEY, POSTHOG_HOST, runs, pc, tool, args, claimSet, claims,
          result, calls, posthog, response, error>>

----------------------------------------------------------------------------
(* Bounds of the model *)

\* longest claims array the upstream model returns at stage 1
MaxStage1Claims == 6
\* longest conflicts array the upstream model returns at stage 2
MaxConflicts == 1

Runs == {"r1", "r2"}

ClaimIds == {"c1", "c2", "c3"}

Min(a, b) == IF a <= b THEN a ELSE b

SeqsUpTo(S, n) == UNION {[1..k -> S] : k \in 0..n}

\* S, plus every record of S extended with key k set to a value of Vals
WithOpt(S, k, Vals) == S \cup {r @@ (k :> v) : r \in S, v \in Vals}

None == [kind |-> "none"]

----------------------------------------------------------------------------
(* Data contracts, server.mjs:21-77 *)

TopicMinLen == 2
MinMaxClaims == 5
MaxMaxClaims == 40
DefaultMaxClaims == 18
MinClaims == 3

Depths == {"overview", "academic"}
Polarities == {"affirm", "deny", "mixed"}
ConflictTypes == {"numeric_incompatible", "polarity_incompatible", "scope_mismatch",
                  "definition_shift", "measurement_paradigm_shift", "other"}
FoundVia == {"directory", "chatgpt_suggested", "link", "friend", "other"}

\* string lengths of the topics the model uses (z.string().min(2))
StrLen(s) == CASE s = "x" -> 1 [] s = "tea" -> 3 [] OTHER -> 3

\* DiscoverInputSchema accepts raw
DiscoverInputOk(raw) ==
    /\ "topic" \in DOMAIN raw /\ StrLen(raw.topic) >= TopicMinLen
    /\ "depth" \in DOMAIN raw => raw.depth \in Depths
    /\ "max_claims" \in DOMAIN raw =>
          (raw.max_claims >= MinMaxClaims /\ raw.max_claims <= MaxMaxClaims)

\* the value DiscoverInputSchema produces: defaults filled in
DiscoverInputSchema(raw) ==
    [topic |-> raw.topic,
     depth |-> IF "depth" \in DOMAIN raw THEN raw.depth ELSE "academic",
     max_claims |-> IF "max_claims" \in DOMAIN raw THEN raw.max_claims ELSE DefaultMaxClaims,
     strict_no_sources |-> IF "strict_no_sources" \in DOMAIN raw
                           THEN raw.strict_no_sources ELSE TRUE]
    @@ (IF "domain" \in DOMAIN raw THEN [domain |-> raw.domain] ELSE <<>>)

AttributionInputOk(raw) == "found_via" \in DOMAIN raw /\ raw.found_via \in FoundVia

ClaimOk(c) ==
    /\ {"claim_id", "polarity"} \subseteq DOMAIN c
    /\ c.polarity \in Polarities

\* ClaimSchema's output: known keys only, qualifiers defaulted to []
ClaimSchema(c) ==
    [claim_id |-> c.claim_id,
     polarity |-> c.polarity,
     qualifiers |-> IF "qualifiers" \in DOMAIN c THEN c.qualifiers ELSE <<>>]

\* a contract that lets two claims through
ClaimSetOkMinTwo(doc) ==
    /\ {"topic", "claims"} \subseteq DOMAIN doc
    /\ Len(doc.claims) >= MinClaims - 1
    /\ \A i \in 1..Len(doc.claims) : ClaimOk(doc.claims[i])

ClaimSetOk(doc) ==
    /\ {"topic", "claims"} \subseteq DOMAIN doc
    /\ Len(doc.claims) >= MinClaims
    /\ \A i \in 1..Len(doc.claims) : ClaimOk(doc.claims[i])

ClaimSetSchema(doc) ==
    [topic |-> doc.topic,
     claims |-> [i \in 1..Len(doc.claims) |-> ClaimSchema(doc.claims[i])]]

ConflictOk(c) ==
    /\ {"claim_a", "claim_b", "conflict_type"} \subseteq DOMAIN c
    /\ c.conflict_type \in ConflictTypes

ConflictSchema(c) ==
    [claim_a |-> c.claim_a, claim_b |-> c.claim_b, conflict_type |-> c.conflict_type]

ConflictReportOk(doc) ==
    /\ {"topic", "conflicts", "summary"} \subseteq DOMAIN doc
    /\ \A i \in 1..Len(doc.conflicts) : ConflictOk(doc.conflicts[i])
    /\ {"conflict_count", "safe_citation_note"} \subseteq DOMAIN doc.summary
    /\ doc.summary.conflict_count >= 0

ConflictReportSchema(doc) ==
    [topic |-> doc.topic,
     conflicts |-> [i \in 1..Len(doc.conflicts) |-> ConflictSchema(doc.conflicts[i])],
     summary |-> [conflict_count |-> doc.summary.conflict_count,
                  top_dimensions |-> IF "top_dimensions" \in DOMAIN doc.summary
                                     THEN doc.summary.top_dimensions ELSE <<>>,
                  safe_citation_note |-> doc.summary.safe_citation_note]]

----------------------------------------------------------------------------
(* JSON texts *)

\* JSON.stringify: the text that encodes doc
JSONStringify(doc) == [json |-> TRUE, doc |-> doc]

\* texts JSON.parse throws on; the empty text is what `|| ""` yields
EmptyText == [json |-> FALSE, raw |-> ""]
ProseText == [json |-> FALSE, raw |-> "Sure! Here are the claims you asked for"]

Return(v) == [ok |-> TRUE, value |-> v]
Throw(e) == [ok |-> FALSE, error |-> e]

\* JSON.parse: the document a text encodes, or a SyntaxError
JSONParse(txt) ==
    IF txt.json THEN Return(txt.doc)
    ELSE Throw([kind |-> "ParseError", rawText |-> txt.raw])

----------------------------------------------------------------------------
(* What the upstream model may answer *)

GoodClaim(id) == [claim_id |-> id, polarity |-> "affirm"]
BadClaim == [claim_id |-> "c1", polarity |-> "unsure"]

\* Claim ids are opaque to the code, so the id lists are taken up to renaming:
\* the ids of a list are c1, c2, c3 in the order of their first appearance.
IdNum(id) == CASE id = "c1" -> 1 [] id = "c2" -> 2 [] OTHER -> 3

InOrderOfFirstUse(l) ==
    \A i \in 1..Len(l) : \A k \in 1..(IdNum(l[i]) - 1) : \E j \in 1..(i - 1) : IdNum(l[j]) = k

IdLists == {l \in SeqsUpTo(ClaimIds, MaxStage1Claims) : InOrderOfFirstUse(l)}

\* the claims arrays: every claim well-formed, or exactly one of them malformed
ClaimLists ==
    LET good == {[i \in 1..Len(l) |-> GoodClaim(l[i])] : l \in IdLists}
    IN good \cup {[g EXCEPT ![p] = BadClaim] : g \in {h \in good : Len(h) = MinClaims + 1},
                                               p \in 1..(MinClaims + 1)}
            \cup {<<BadClaim>>}

ThreeClaims == <<GoodClaim("c1"), GoodClaim("c2"), GoodClaim("c3")>>

Stage1Docs ==
    {[topic |-> "tea", claims |-> l] : l \in ClaimLists}
    \cup {[claims |-> ThreeClaims],
          [topic |-> "tea"],
          [topic |-> "tea", claims |-> ThreeClaims, note |-> "unknown key"]}

GoodConflict(a, b) == [claim_a |-> a, claim_b |-> b, conflict_type |-> "polarity_incompatible"]
BadConflict == [claim_a |-> "c1", claim_b |-> "c2", conflict_type |-> "vibes"]
\* a conflict names two different claim ids, the smaller one first
RawConflicts ==
    {GoodConflict(p[1], p[2]) : p \in {q \in ClaimIds \X ClaimIds : IdNum(q[1]) < IdNum(q[2])}}
    \cup {BadConflict}

Summary(n) == [conflict_count |-> n, safe_citation_note |-> "cite with qualifiers"]

Stage2Docs ==
    {[topic |-> "tea", conflicts |-> l, summary |-> Summary(n)] :
        l \in SeqsUpTo(RawConflicts, MaxConflicts), n \in (-1)..MaxConflicts}
    \cup {[topic |-> "tea", conflicts |-> <<>>],
          [topic |-> "tea", conflicts |-> <<>>, summary |-> [conflict_count |-> 0]],
          [topic |-> "tea", conflicts |-> <<>>, summary |-> Summary(0),
           claims |-> <<GoodClaim("c3")>>]}

\* the outcomes of one fetch to api.openai.com whose success body carries a doc of Docs
Responses(Docs) ==
    {[kind |-> "network_error"]}
    \cup {[kind |-> "http", ok |-> FALSE, status |-> s, body |-> "upstream failure"] :
             s \in {429, 500}}
    \cup {[kind |-> "http", ok |-> FALSE, status |-> 502]}
    \cup {[kind |-> "http", ok |-> TRUE, status |-> 200, json |-> FALSE]}
    \cup {[kind |-> "http", ok |-> TRUE, status |-> 200, json |-> TRUE, data |-> d] :
             d \in {[id |-> "resp_1"]}
                   \cup {[id |-> "resp_1", output_text |-> t] :
                            t \in {EmptyText, ProseText}
                                  \cup {JSONStringify(doc) : doc \in Docs}}}

Stage1Responses == Responses(Stage1Docs)
Stage2Responses == Responses(Stage2Docs)

Pending == [kind |-> "pending"]

----------------------------------------------------------------------------
(* Generative client, server.mjs:97-119 *)

JSONDirective == "Return ONLY valid JSON. No markdown. No commentary."

\* the request openaiJSON sends; site is the call site in discoverConflicts
OpenaiRequest(site, instructions, input) ==
    [stage |-> site,
     instructions |-> Append(instructions, JSONDirective),
     input |-> input,
     response |-> Pending]

\* a client that answers an unparseable output text with an empty report
openaiJSONLenient(res) ==
    IF res.kind = "network_error" THEN Throw([kind |-> "FetchError"])
    ELSE IF ~res.ok
         THEN Throw([kind |-> "UpstreamError",
                     status |-> res.status,
                     body |-> IF "body" \in DOMAIN res THEN res.body ELSE ""])
    ELSE IF ~res.json THEN Throw([kind |-> "ParseError", rawText |-> "response body"])
    ELSE IF "output_text" \in DOMAIN res.data /\ res.data.output_text.json
         THEN Return(res.data.output_text.doc)
         ELSE Return([topic |-> "", conflicts |-> <<>>, summary |-> Summary(0)])

\* a client that skips the res.ok test and parses the error body
openaiJSONParsesErrorBody(res) ==
    IF res.kind = "network_error" THEN Throw([kind |-> "FetchError"])
    ELSE IF ~res.ok
         THEN Throw([kind |-> "ParseError",
                     rawText |-> IF "body" \in DOMAIN res THEN res.body ELSE ""])
    ELSE IF ~res.json THEN Throw([kind |-> "ParseError", rawText |-> "response body"])
    ELSE JSONParse(IF "output_text" \in DOMAIN res.data
                   THEN res.data.output_text ELSE EmptyText)

\* a client that reads a missing or empty output text as the document {}
openaiJSONEmptyObject(res) ==
    IF res.kind = "network_error" THEN Throw([kind |-> "FetchError"])
    ELSE IF ~res.ok
         THEN Throw([kind |-> "UpstreamError",
                     status |-> res.status,
                     body |-> IF "body" \in DOMAIN res THEN res.body ELSE ""])
    ELSE IF ~res.json THEN Throw([kind |-> "ParseError", rawText |-> "response body"])
    ELSE IF "output_text" \in DOMAIN res.data /\ res.data.output_text # EmptyText
         THEN JSONParse(res.data.output_text)
         ELSE Return([empty |-> TRUE])

\* what openaiJSON returns or throws once fetch has settled with res
openaiJSON(res) ==
    IF res.kind = "network_error" THEN Throw([kind |-> "FetchError"])
    ELSE IF ~res.ok
         THEN Throw([kind |-> "UpstreamError",
                     status |-> res.status,
                     body |-> IF "body" \in DOMAIN res THEN res.body ELSE ""])
    ELSE IF ~res.json THEN Throw([kind |-> "ParseError", rawText |-> "response body"])
    ELSE JSONParse(IF "output_text" \in DOMAIN res.data
                   THEN res.data.output_text ELSE EmptyText)

----------------------------------------------------------------------------
(* Prompt policy, server.mjs:122-150 *)

StrictDirective == "Do NOT fabricate citations, paper titles, authors, journals, or DOIs."
WeakDirective == "Do not fabricate citations."

antiCitation(strict_no_sources) ==
    IF strict_no_sources THEN StrictDirective ELSE WeakDirective

Stage1Instructions(a) ==
    <<"You enumerate conflicting scientific claims that exist in the literature or popular summaries.",
      "Do not reconcile disagreements. Do not average them.",
      "Each claim must be atomic and testable.",
      "Separate by paradigm, definition, and scope when relevant.",
      antiCitation(a.strict_no_sources),
      "Max claims: " \o ToString(a.max_claims)>>

\* an audit prompt without the anti-fabrication directive
Stage2InstructionsNoDirective(a) ==
    <<"You are a contradiction auditor.",
      "Given claims, identify conflicts that cannot both be true under the same scope and definition.",
      "If contradiction depends on scope/definition shifts, mark conflict_type accordingly.",
      "Prioritize conflicts that would mislead a researcher if cited without qualifiers.">>

Stage2Instructions(a) ==
    <<"You are a contradiction auditor.",
      "Given claims, identify conflicts that cannot both be true under the same scope and definition.",
      "If contradiction depends on scope/definition shifts, mark conflict_type accordingly.",
      "Prioritize conflicts that would mislead a researcher if cited without qualifiers.",
      antiCitation(a.strict_no_sources)>>

\* JSON.stringify({ topic, domain, depth }): an undefined domain is left out
Stage1Input(a) ==
    JSONStringify([topic |-> a.topic, depth |-> a.depth]
                  @@ (IF "domain" \in DOMAIN a THEN [domain |-> a.domain] ELSE <<>>))

Stage2Input(cs, cl) == JSONStringify([topic |-> cs.topic, claims |-> cl])

\* slice that forgets the cap
SliceNoCap(s, end) == s

\* slice that keeps the last end entries instead of the first
SliceTail(s, end) == SubSeq(s, Len(s) - Min(end, Len(s)) + 1, Len(s))

\* Array.prototype.slice(0, end) for end >= 0
Slice(s, end) == SubSeq(s, 1, Min(end, Len(s)))

\* { ...report, claims }
Merge(report, cl) ==
    [topic |-> report.topic, conflicts |-> report.conflicts,
     summary |-> report.summary, claims |-> cl]

----------------------------------------------------------------------------
(* Telemetry, server.mjs:79-95 *)

\* a guard that forgets the endpoint
AnalyticsEnabledKeyOnly == POSTHOG_API_KEY # ""

AnalyticsEnabled == POSTHOG_API_KEY # "" /\ POSTHOG_HOST # ""

distinctId(properties) ==
    IF "distinct_id" \in DOMAIN properties /\ properties.distinct_id # ""
    THEN properties.distinct_id
    ELSE IF "widget_session_id" \in DOMAIN properties /\ properties.widget_session_id # ""
         THEN properties.widget_session_id
         ELSE "unknown"

\* the request trackEvent posts to the capture endpoint
CaptureRequest(event, properties) ==
    [url |-> POSTHOG_HOST \o "/capture/",
     body |-> [api_key |-> POSTHOG_API_KEY,
               distinct_id |-> distinctId(properties),
               event |-> event,
               properties |-> properties],
     outcome |-> "in_flight"]

\* the properties of the conflict_lens_run event (elapsed_ms is wall-clock time,
\* which the model does not carry)
RunProperties(a, res) ==
    [distinct_id |-> a.topic,
     topic |-> a.topic,
     domain |-> IF "domain" \in DOMAIN a THEN a.domain ELSE "",
     depth |-> a.depth,
     max_claims |-> a.max_claims,
     conflict_count |-> IF "summary" \in DOMAIN res /\ "conflict_count" \in DOMAIN res.summary
                        THEN res.summary.conflict_count
                        ELSE Len(res.conflicts)]

FoundViaProperties(a) == [distinct_id |-> "attribution", found_via |-> a.found_via]

\* what the tool handlers return
DiscoverResponse(res) ==
    [content |-> "Conflict Lens report ready.",
     structuredContent |-> res,
     outputTemplate |-> "ui://conflict-lens/widget"]

AttributionResponse == [content |-> "Thanks. Saved."]

----------------------------------------------------------------------------
(* Tool arguments the caller may send *)

DiscoverRawArgs ==
    WithOpt({[topic |-> t] : t \in {"x", "tea"}}, "max_claims", {4, 5, 41})
    \cup {[topic |-> "tea", domain |-> "nutrition", depth |-> "overview",
           strict_no_sources |-> FALSE],
          [topic |-> "tea", depth |-> "deep"],
          [max_claims |-> 5]}

AttributionRawArgs == {[found_via |-> "link"], [found_via |-> "tv"]}

----------------------------------------------------------------------------
(* The state machine *)

Init ==
    /\ POSTHOG_API_KEY \in {"", "phc_key"}
    /\ POSTHOG_HOST \in {"", "https://eu.posthog.com"}
    /\ runs = {"r1"}
    /\ pc = [r \in Runs |-> "idle"]
    /\ tool = [r \in Runs |-> "none"]
    /\ args = [r \in Runs |-> None]
    /\ claimSet = [r \in Runs |-> None]
    /\ claims = [r \in Runs |-> <<>>]
    /\ result = [r \in Runs |-> None]
    /\ calls = [r \in Runs |-> <<>>]
    /\ posthog = [r \in Runs |-> <<>>]
    /\ response = [r \in Runs |-> None]
    /\ error = [r \in Runs |-> None]

Config == <<POSTHOG_API_KEY, POSTHOG_HOST, runs>>

\* the response of the last request of a call log is set to res
Settle(log, res) == [log EXCEPT ![Len(log)].response = res]

\* a handler that falls back to the claims it already holds
FailWithFallback(r, e) ==
    IF claims[r] # <<>>
    THEN /\ pc' = [pc EXCEPT ![r] = "responded"]
         /\ response' = [response EXCEPT ![r] = DiscoverResponse([claims |-> claims[r]])]
         /\ claimSet' = [claimSet EXCEPT ![r] = None]
         /\ claims' = [claims EXCEPT ![r] = <<>>]
         /\ UNCHANGED <<result, posthog, error>>
    ELSE /\ pc' = [pc EXCEPT ![r] = "failed"]
         /\ error' = [error EXCEPT ![r] = e]
         /\ claimSet' = [claimSet EXCEPT ![r] = None]
         /\ claims' = [claims EXCEPT ![r] = <<>>]
         /\ UNCHANGED <<result, posthog, response>>

\* a handler that catches the exception, records it with the telemetry sink
\* and throws it again
FailTracked(r, e) ==
    /\ pc' = [pc EXCEPT ![r] = "failed"]
    /\ error' = [error EXCEPT ![r] = e]
    /\ claimSet' = [claimSet EXCEPT ![r] = None]
    /\ claims' = [claims EXCEPT ![r] = <<>>]
    /\ posthog' = [posthog EXCEPT ![r] =
                      Append(@, CaptureRequest("conflict_lens_error", [distinct_id |-> e.kind]))]
    /\ UNCHANGED <<result, response>>

\* an exception leaves the tool handler of run r: the locals are gone, the
\* invocation fails
Fail(r, e) ==
    /\ pc' = [pc EXCEPT ![r] = "failed"]
    /\ error' = [error EXCEPT ![r] = e]
    /\ claimSet' = [claimSet EXCEPT ![r] = None]
    /\ claims' = [claims EXCEPT ![r] = <<>>]
    /\ UNCHANGED <<result, posthog, response>>

\* await trackEvent(event, properties) in run r, then `whenDone`
TrackEvent(r, event, properties, whenDone) ==
    IF AnalyticsEnabled
    THEN /\ posthog' = [posthog EXCEPT ![r] = Append(@, CaptureRequest(event, properties))]
         /\ pc' = [pc EXCEPT ![r] = "tracking"]
         /\ UNCHANGED response
    ELSE /\ pc' = [pc EXCEPT ![r] = "responded"]
         /\ response' = [response EXCEPT ![r] = whenDone]
         /\ UNCHANGED posthog

\* a discoverConflicts that starts both generative calls at once
InvokeDiscoverBothStages(r) ==
    /\ r \in runs /\ pc[r] = "idle"
    /\ tool' = [tool EXCEPT ![r] = "discover"]
    /\ \E raw \in DiscoverRawArgs :
       IF DiscoverInputOk(raw)
       THEN LET a == DiscoverInputSchema(raw) IN
            /\ args' = [args EXCEPT ![r] = a]
            /\ calls' = [calls EXCEPT ![r] =
                            <<OpenaiRequest(1, Stage1Instructions(a), Stage1Input(a)),
                              OpenaiRequest(2, Stage2Instructions(a),
                                            Stage2Input([topic |-> a.topic], <<>>))>>]
            /\ pc' = [pc EXCEPT ![r] = "extracting"]
            /\ UNCHANGED <<claimSet, claims, result, posthog, response, error>>
       ELSE /\ Fail(r, [kind |-> "InputValidationError"])
            /\ UNCHANGED <<args, calls>>
    /\ UNCHANGED Config

\* the boundary validates the arguments, the handler starts and discoverConflicts
\* sends the stage-1 request (server.mjs:166-168, 121-137)
InvokeDiscover(r) ==
    /\ r \in runs /\ pc[r] = "idle"
    /\ tool' = [tool EXCEPT ![r] = "discover"]
    /\ \E raw \in DiscoverRawArgs :
       IF DiscoverInputOk(raw)
       THEN LET a == DiscoverInputSchema(raw) IN
            /\ args' = [args EXCEPT ![r] = a]
            /\ calls' = [calls EXCEPT ![r] =
                            <<OpenaiRequest(1, Stage1Instructions(a), Stage1Input(a))>>]
            /\ pc' = [pc EXCEPT ![r] = "extracting"]
            /\ UNCHANGED <<claimSet, claims, result, posthog, response, error>>
       ELSE /\ Fail(r, [kind |-> "InputValidationError"])
            /\ UNCHANGED <<args, calls>>
    /\ UNCHANGED Config

\* a stage 1 that sends its request again when the call fails
Stage1ReplyRetry(r) ==
    /\ r \in runs /\ pc[r] = "extracting"
    /\ \E res \in Stage1Responses :
       LET out == openaiJSON(res) IN
       IF out.ok /\ ClaimSetOk(out.value)
       THEN LET cs == ClaimSetSchema(out.value)
                cl == Slice(cs.claims, args[r].max_claims)
            IN /\ claimSet' = [claimSet EXCEPT ![r] = cs]
               /\ claims' = [claims EXCEPT ![r] = cl]
               /\ calls' = [calls EXCEPT ![r] =
                               Append(Settle(@, res),
                                      OpenaiRequest(2, Stage2Instructions(args[r]),
                                                    Stage2Input(cs, cl)))]
               /\ pc' = [pc EXCEPT ![r] = "auditing"]
               /\ UNCHANGED <<result, posthog, response, error>>
       ELSE IF ~out.ok
            THEN /\ calls' = [calls EXCEPT ![r] =
                                 Append(Settle(@, res),
                                        OpenaiRequest(1, Stage1Instructions(args[r]),
                                                      Stage1Input(args[r])))]
                 /\ UNCHANGED <<pc, claimSet, claims, result, posthog, response, error>>
            ELSE /\ calls' = [calls EXCEPT ![r] = Settle(@, res)]
                 /\ Fail(r, [kind |-> "SchemaValidationError", schema |-> "ClaimSet"])
    /\ UNCHANGED <<Config, tool, args>>

\* a stage 1 that returns its claims with an empty report, without the audit
Stage1ReplySkipAudit(r) ==
    /\ r \in runs /\ pc[r] = "extracting"
    /\ \E res \in Stage1Responses :
       LET out == openaiJSON(res) IN
       IF out.ok /\ ClaimSetOk(out.value)
       THEN LET cs == ClaimSetSchema(out.value)
                cl == Slice(cs.claims, args[r].max_claims)
                merged == Merge([topic |-> cs.topic, conflicts |-> <<>>,
                                 summary |-> [conflict_count |-> 0,
                                              top_dimensions |-> <<>>,
                                              safe_citation_note |-> ""]], cl)
            IN /\ result' = [result EXCEPT ![r] = merged]
               /\ calls' = [calls EXCEPT ![r] = Settle(@, res)]
               /\ TrackEvent(r, "conflict_lens_run", RunProperties(args[r], merged),
                             DiscoverResponse(merged))
               /\ UNCHANGED <<claimSet, claims, error>>
       ELSE /\ calls' = [calls EXCEPT ![r] = Settle(@, res)]
            /\ Fail(r, IF out.ok THEN [kind |-> "SchemaValidationError", schema |-> "ClaimSet"]
                       ELSE out.error)
    /\ UNCHANGED <<Config, tool, args>>

\* the stage-1 fetch settles: openaiJSON, ClaimSetSchema.parse, slice, and the
\* stage-2 request (server.mjs:111-118, 126-152)
Stage1Reply(r) ==
    /\ r \in runs /\ pc[r] = "extracting"
    /\ \E res \in Stage1Responses :
       LET out == openaiJSON(res) IN
       IF out.ok /\ ClaimSetOk(out.value)
       THEN LET cs == ClaimSetSchema(out.value)
                cl == Slice(cs.claims, args[r].max_claims)
            IN /\ claimSet' = [claimSet EXCEPT ![r] = cs]
               /\ claims' = [claims EXCEPT ![r] = cl]
               /\ calls' = [calls EXCEPT ![r] =
                               Append(Settle(@, res),
                                      OpenaiRequest(2, Stage2Instructions(args[r]),
                                                    Stage2Input(cs, cl)))]
               /\ pc' = [pc EXCEPT ![r] = "auditing"]
               /\ UNCHANGED <<result, posthog, response, error>>
       ELSE /\ calls' = [calls EXCEPT ![r] = Settle(@, res)]
            /\ Fail(r, IF out.ok THEN [kind |-> "SchemaValidationError", schema |-> "ClaimSet"]
                       ELSE out.error)
    /\ UNCHANGED <<Config, tool, args>>

\* a discoverConflicts whose claims live in one module-level variable that
\* every run writes: the merge takes the claims some run left there
Stage2ReplySharedClaims(r) ==
    /\ r \in runs /\ pc[r] = "auditing"
    /\ \E res \in Stage2Responses :
       LET out == openaiJSON(res) IN
       IF out.ok /\ ConflictReportOk(out.value)
       THEN \E q \in Runs :
            /\ claims[q] # <<>>
            /\ LET merged == Merge(ConflictReportSchema(out.value), claims[q]) IN
               /\ result' = [result EXCEPT ![r] = merged]
               /\ calls' = [calls EXCEPT ![r] = Settle(@, res)]
               /\ claimSet' = [claimSet EXCEPT ![r] = None]
               /\ claims' = [claims EXCEPT ![r] = <<>>]
               /\ TrackEvent(r, "conflict_lens_run", RunProperties(args[r], merged),
                             DiscoverResponse(merged))
               /\ UNCHANGED error
       ELSE /\ calls' = [calls EXCEPT ![r] = Settle(@, res)]
            /\ Fail(r, IF out.ok
                       THEN [kind |-> "SchemaValidationError", schema |-> "ConflictReport"]
                       ELSE out.error)
    /\ UNCHANGED <<Config, tool, args>>

\* a stage 2 that answers HTTP 429 by waiting for a timer nobody arms
Stage2ReplyBackoff(r) ==
    /\ r \in runs /\ pc[r] = "auditing"
    /\ \E res \in Stage2Responses :
       LET out == openaiJSON(res) IN
       IF out.ok /\ ConflictReportOk(out.value)
       THEN LET merged == Merge(ConflictReportSchema(out.value), claims[r]) IN
            /\ result' = [result EXCEPT ![r] = merged]
            /\ calls' = [calls EXCEPT ![r] = Settle(@, res)]
            /\ claimSet' = [claimSet EXCEPT ![r] = None]
            /\ claims' = [claims EXCEPT ![r] = <<>>]
            /\ TrackEvent(r, "conflict_lens_run", RunProperties(args[r], merged),
                          DiscoverResponse(merged))
            /\ UNCHANGED error
       ELSE IF ~out.ok /\ out.error.kind = "UpstreamError" /\ out.error.status = 429
            THEN /\ calls' = [calls EXCEPT ![r] = Settle(@, res)]
                 /\ pc' = [pc EXCEPT ![r] = "backoff"]
                 /\ UNCHANGED <<claimSet, claims, result, posthog, response, error>>
            ELSE /\ calls' = [calls EXCEPT ![r] = Settle(@, res)]
                 /\ Fail(r, IF out.ok
                            THEN [kind |-> "SchemaValidationError", schema |-> "ConflictReport"]
                            ELSE out.error)
    /\ UNCHANGED <<Config, tool, args>>

\* the stage-2 fetch settles: openaiJSON, ConflictReportSchema.parse, the merge,
\* and the handler's trackEvent (server.mjs:111-118, 142-155, 169-189)
Stage2Reply(r) ==
    /\ r \in runs /\ pc[r] = "auditing"
    /\ \E res \in Stage2Responses :
       LET out == openaiJSON(res) IN
       IF out.ok /\ ConflictReportOk(out.value)
       THEN LET merged == Merge(ConflictReportSchema(out.value), claims[r]) IN
            /\ result' = [result EXCEPT ![r] = merged]
            /\ calls' = [calls EXCEPT ![r] = Settle(@, res)]
            /\ claimSet' = [claimSet EXCEPT ![r] = None]
            /\ claims' = [claims EXCEPT ![r] = <<>>]
            /\ TrackEvent(r, "conflict_lens_run", RunProperties(args[r], merged),
                          DiscoverResponse(merged))
            /\ UNCHANGED error
       ELSE /\ calls' = [calls EXCEPT ![r] = Settle(@, res)]
            /\ Fail(r, IF out.ok
                       THEN [kind |-> "SchemaValidationError", schema |-> "ConflictReport"]
                       ELSE out.error)
    /\ UNCHANGED <<Config, tool, args>>

\* the track_attribution handler (server.mjs:191-200)
InvokeAttribution(r) ==
    /\ r \in runs /\ pc[r] = "idle"
    /\ tool' = [tool EXCEPT ![r] = "attribution"]
    /\ \E raw \in AttributionRawArgs :
       IF AttributionInputOk(raw)
       THEN /\ args' = [args EXCEPT ![r] = raw]
            /\ TrackEvent(r, "conflict_lens_found_via", FoundViaProperties(raw),
                          AttributionResponse)
            /\ UNCHANGED <<claimSet, claims, result, error>>
       ELSE /\ Fail(r, [kind |-> "InputValidationError"])
            /\ UNCHANGED args
    /\ UNCHANGED <<Config, calls>>

\* a trackEvent without the .catch: a rejected capture fetch fails the handler
TrackSettledNoCatch(r) ==
    /\ r \in runs /\ pc[r] = "tracking"
    /\ \E outcome \in {"delivered", "rejected"} :
       /\ posthog' = [posthog EXCEPT ![r] = [@ EXCEPT ![Len(@)].outcome = outcome]]
       /\ IF outcome = "rejected"
          THEN /\ pc' = [pc EXCEPT ![r] = "failed"]
               /\ error' = [error EXCEPT ![r] = [kind |-> "FetchError"]]
               /\ UNCHANGED response
          ELSE /\ pc' = [pc EXCEPT ![r] = "responded"]
               /\ response' = [response EXCEPT ![r] =
                                  IF tool[r] = "discover" THEN DiscoverResponse(result[r])
                                  ELSE AttributionResponse]
               /\ UNCHANGED error
    /\ UNCHANGED <<Config, tool, args, claimSet, claims, result, calls>>

\* the capture fetch settles; a rejection is caught by .catch(() => {}) and the
\* handler returns (server.mjs:85-95, 181-199)
TrackSettled(r) ==
    /\ r \in runs /\ pc[r] = "tracking"
    /\ \E outcome \in {"delivered", "rejected"} :
       posthog' = [posthog EXCEPT ![r] = [@ EXCEPT ![Len(@)].outcome = outcome]]
    /\ pc' = [pc EXCEPT ![r] = "responded"]
    /\ response' = [response EXCEPT ![r] =
                       IF tool[r] = "discover" THEN DiscoverResponse(result[r])
                       ELSE AttributionResponse]
    /\ UNCHANGED <<Config, tool, args, claimSet, claims, result, calls, error>>

Next ==
    \E r \in Runs :
        \/ InvokeDiscover(r)
        \/ Stage1Reply(r)
        \/ Stage2Reply(r)
        \/ InvokeAttribution(r)
        \/ TrackSettled(r)

Spec == Init /\ [][Next]_vars


----------------------------------------------------------------------------
(* Two invocations served at once.  The handlers are the same; the upstream
   answers and the arguments are taken from a few representatives, so that
   every interleaving of the two runs is explored. *)

SixClaims == <<GoodClaim("c1"), GoodClaim("c1"), GoodClaim("c2"),
               GoodClaim("c2"), GoodClaim("c3"), GoodClaim("c3")>>

HttpOk(doc) ==
    [kind |-> "http", ok |-> TRUE, status |-> 200, json |-> TRUE,
     data |-> [id |-> "resp_1", output_text |-> JSONStringify(doc)]]

HttpError == [kind |-> "http", ok |-> FALSE, status |-> 500, body |-> "upstream failure"]

ConcStage1Responses ==
    {HttpError,
     HttpOk([topic |-> "tea", claims |-> ThreeClaims]),
     HttpOk([topic |-> "tea", claims |-> SixClaims])}

ConcStage2Responses ==
    {HttpError,
     HttpOk([topic |-> "tea", conflicts |-> <<>>, summary |-> Summary(0)]),
     HttpOk([topic |-> "tea", conflicts |-> <<GoodConflict("c1", "c2")>>,
             summary |-> Summary(1)])}

InitConc ==
    /\ POSTHOG_API_KEY \in {"", "phc_key"}
    /\ POSTHOG_HOST \in {"", "https://eu.posthog.com"}
    /\ runs = Runs
    /\ pc = [r \in Runs |-> "idle"]
    /\ tool = [r \in Runs |-> "none"]
    /\ args = [r \in Runs |-> None]
    /\ claimSet = [r \in Runs |-> None]
    /\ claims = [r \in Runs |-> <<>>]
    /\ result = [r \in Runs |-> None]
    /\ calls = [r \in Runs |-> <<>>]
    /\ posthog = [r \in Runs |-> <<>>]
    /\ response = [r \in Runs |-> None]
    /\ error = [r \in Runs |-> None]

NextConc ==
    \E r \in Runs :
        \/ InvokeDiscover(r) /\ (pc'[r] = "failed" \/ args'[r].strict_no_sources)
        \/ Stage1Reply(r) /\ calls'[r][1].response \in ConcStage1Responses
        \/ Stage2Reply(r) /\ calls'[r][2].response \in ConcStage2Responses
        \/ InvokeAttribution(r)
        \/ TrackSettled(r)

SpecConc == InitConc /\ [][NextConc]_vars

----------------------------------------------------------------------------
(* Progress of one invocation.  Which step a handler takes next depends on the
   kind of answer it gets (rejected fetch, error status, unreadable body,
   missing or unparseable text, document off or on the contract), so the
   upstream answers are one or two of each kind. *)

HttpOkText(t) ==
    [kind |-> "http", ok |-> TRUE, status |-> 200, json |-> TRUE,
     data |-> [id |-> "resp_1", output_text |-> t]]

AnswerKinds ==
    {[kind |-> "network_error"],
     HttpError,
     [kind |-> "http", ok |-> FALSE, status |-> 429, body |-> "upstream failure"],
     [kind |-> "http", ok |-> TRUE, status |-> 200, json |-> FALSE],
     [kind |-> "http", ok |-> TRUE, status |-> 200, json |-> TRUE, data |-> [id |-> "resp_1"]],
     HttpOkText(ProseText)}

LiveStage1Responses ==
    AnswerKinds \cup ConcStage1Responses
    \cup {HttpOk([topic |-> "tea", claims |-> <<GoodClaim("c1"), GoodClaim("c2")>>])}

LiveStage2Responses ==
    AnswerKinds \cup ConcStage2Responses
    \cup {HttpOk([topic |-> "tea", conflicts |-> <<>>, summary |-> Summary(-1)])}

LiveStage1Reply(r) == Stage1Reply(r) /\ calls'[r][1].response \in LiveStage1Responses

LiveStage2Reply(r) == Stage2Reply(r) /\ calls'[r][2].response \in LiveStage2Responses

NextLive ==
    \E r \in Runs :
        \/ InvokeDiscover(r)
        \/ LiveStage1Reply(r)
        \/ LiveStage2Reply(r)
        \/ InvokeAttribution(r)
        \/ TrackSettled(r)

\* every fetch to api.openai.com that a run awaits settles in the end; nothing
\* is assumed of the capture endpoint
UpstreamAnswers ==
    \A r \in Runs : WF_vars(LiveStage1Reply(r)) /\ WF_vars(LiveStage2Reply(r))

LiveSpec == Init /\ [][NextLive]_vars /\ UpstreamAnswers

----------------------------------------------------------------------------
(* Vocabulary of the properties *)

\* run r is a discovery invocation whose handler has returned to the caller
Returned(r) == tool[r] = "discover" /\ pc[r] = "responded"

\* the upstream answered res with a success whose output text is JSON
HasDoc(res) ==
    /\ res.kind = "http" /\ res.ok /\ res.json
    /\ "output_text" \in DOMAIN res.data
    /\ res.data.output_text.json

DocOf(res) == res.data.output_text.doc

\* the claims array of the stage-2 request of run r
SentClaims(r) == calls[r][2].input.doc.claims

ClaimIdsOf(cl) == {cl[i].claim_id : i \in 1..Len(cl)}

\* doc is a claim set as the data contract describes it: a topic and at least
\* three claims, each with an id and a polarity of the enumeration
WellFormedClaimSet(doc) ==
    /\ "topic" \in DOMAIN doc /\ "claims" \in DOMAIN doc
    /\ Len(doc.claims) > 2
    /\ \A i \in 1..Len(doc.claims) :
          /\ "claim_id" \in DOMAIN doc.claims[i]
          /\ "polarity" \in DOMAIN doc.claims[i]
          /\ doc.claims[i].polarity \in {"affirm", "deny", "mixed"}

\* doc is a conflict report as the data contract describes it
WellFormedReport(doc) ==
    /\ "topic" \in DOMAIN doc /\ "conflicts" \in DOMAIN doc /\ "summary" \in DOMAIN doc
    /\ \A i \in 1..Len(doc.conflicts) :
          /\ {"claim_a", "claim_b", "conflict_type"} \subseteq DOMAIN doc.conflicts[i]
          /\ doc.conflicts[i].conflict_type \in ConflictTypes
    /\ "conflict_count" \in DOMAIN doc.summary
    /\ "safe_citation_note" \in DOMAIN doc.summary
    /\ doc.summary.conflict_count >= 0

\* call n of run r was answered, and not with a document of the contract
StageFailed(r, n) ==
    /\ Len(calls[r]) >= n
    /\ calls[r][n].response # Pending
    /\ ~ /\ HasDoc(calls[r][n].response)
         /\ IF n = 1 THEN WellFormedClaimSet(DocOf(calls[r][n].response))
            ELSE WellFormedReport(DocOf(calls[r][n].response))

\* call n of run r was answered with a document of the contract
StagePassed(r, n) ==
    /\ Len(calls[r]) >= n
    /\ HasDoc(calls[r][n].response)
    /\ IF n = 1 THEN WellFormedClaimSet(DocOf(calls[r][n].response))
       ELSE WellFormedReport(DocOf(calls[r][n].response))

Unique(cl) == \A i, j \in 1..Len(cl) : i # j => cl[i].claim_id # cl[j].claim_id

\* everything the model holds of run r
RunView(r) ==
    <<pc[r], tool[r], args[r], claimSet[r], claims[r], result[r], calls[r],
      posthog[r], response[r], error[r]>>

\* the answers run r has received to its calls, in order
Answers(r) == [n \in 1..Len(calls[r]) |-> calls[r][n].response]

\* the state of the pipeline run of r, in the names of the design's state
\* machine.  EXTRACTED_VALID and AUDITED_VALID are passed inside one step of
\* the handler (no await lies between the validation and what follows it), so
\* no state of the model rests in them.
RunState(r) ==
    CASE pc[r] = "idle" -> "INIT"
      [] pc[r] = "extracting" -> "EXTRACTING"
      [] pc[r] = "auditing" -> "AUDITING"
      [] pc[r] = "failed" -> "ABORTED"
      [] OTHER -> "MERGED"

----------------------------------------------------------------------------
(* Properties *)

\* C1: in every result returned by a successful discovery run, claim_a and
\* claim_b of every conflict are claim_ids of claims in the returned claims list.
C1_ReferentialIntegrity ==
    \A r \in Runs : Returned(r) =>
        LET res == response[r].structuredContent IN
        \A i \in 1..Len(res.conflicts) :
            /\ res.conflicts[i].claim_a \in ClaimIdsOf(res.claims)
            /\ res.conflicts[i].claim_b \in ClaimIdsOf(res.claims)

\* C2: in every returned result summary.conflict_count equals the number of
\* entries of conflicts.
C2_ConflictCountIsLength ==
    \A r \in Runs : Returned(r) =>
        LET res == response[r].structuredContent IN
        res.summary.conflict_count = Len(res.conflicts)

\* C3: for max_claims in 5..40 and a validated stage-1 response, the truncated
\* claim list has between 1 and max_claims entries, both as sent to stage 2 and
\* as returned in the result's claims field.
C3_TruncatedLength ==
    \A r \in Runs :
        /\ Len(calls[r]) >= 2 =>
              /\ args[r].max_claims \in MinMaxClaims..MaxMaxClaims
              /\ Len(SentClaims(r)) >= 1
              /\ Len(SentClaims(r)) <= args[r].max_claims
              /\ pc[r] = "auditing" =>
                    Len(claims[r]) >= 1 /\ Len(claims[r]) <= args[r].max_claims
        /\ Returned(r) =>
              /\ Len(response[r].structuredContent.claims) >= 1
              /\ Len(response[r].structuredContent.claims) <= args[r].max_claims

\* C3 witness: a run returned exactly max_claims claims although stage 1
\* delivered more.
C3_Witness ==
    \E r \in Runs :
        /\ Returned(r)
        /\ Len(DocOf(calls[r][1].response).claims) > args[r].max_claims
        /\ Len(response[r].structuredContent.claims) = args[r].max_claims

\* C4: the claims sent to stage 2 and the claims returned are both exactly the
\* first min(n, max_claims) claims of the validated stage-1 output, in their
\* original order, and the two lists are identical.
C4_StablePrefix ==
    \A r \in Runs :
        /\ Len(calls[r]) >= 2 =>
              LET s1 == DocOf(calls[r][1].response).claims
                  k == IF Len(s1) <= args[r].max_claims THEN Len(s1) ELSE args[r].max_claims
              IN /\ Len(SentClaims(r)) = k
                 /\ \A i \in 1..k :
                       /\ SentClaims(r)[i].claim_id = s1[i].claim_id
                       /\ SentClaims(r)[i].polarity = s1[i].polarity
                 /\ pc[r] = "auditing" => claims[r] = SentClaims(r)
        /\ Returned(r) => response[r].structuredContent.claims = SentClaims(r)

\* C4 witness: a run returned five claims of a six-claim stage-1 output whose
\* sixth claim carries an id that none of the first five has.
C4_Witness ==
    \E r \in Runs :
        /\ Returned(r)
        /\ LET s1 == DocOf(calls[r][1].response).claims IN
           /\ Len(s1) > args[r].max_claims
           /\ s1[Len(s1)].claim_id \notin ClaimIdsOf(response[r].structuredContent.claims)
           /\ Cardinality(ClaimIdsOf(response[r].structuredContent.claims)) > 1

\* C5: a discovery run returns a result only if both stage calls succeeded and
\* both outputs passed validation; when stage 2 fails after a validated stage 1
\* the run fails and nothing that holds the validated claims is returned.
C5_AllOrNothing ==
    \A r \in Runs : tool[r] = "discover" =>
        /\ (response[r] # None \/ result[r] # None) =>
              StagePassed(r, 1) /\ StagePassed(r, 2)
        /\ StageFailed(r, 2) =>
              /\ pc[r] = "failed"
              /\ error[r] # None
              /\ response[r] = None
              /\ result[r] = None

\* C5 witness: stage 1 was validated, the stage-2 call came back with HTTP 500
\* and the run failed without a response.
C5_Witness ==
    \E r \in Runs :
        /\ StagePassed(r, 1)
        /\ Len(calls[r]) = 2
        /\ calls[r][2].response.kind = "http"
        /\ ~calls[r][2].response.ok
        /\ calls[r][2].response.status = 500
        /\ pc[r] = "failed"
        /\ response[r] = None

\* C6: when the stage-1 output fails ClaimSet validation (fewer than 3 claims,
\* for one) the run fails with a schema validation error and no stage-2 call
\* is made.
C6_NoStage2AfterInvalidStage1 ==
    \A r \in Runs :
        (/\ Len(calls[r]) >= 1
         /\ HasDoc(calls[r][1].response)
         /\ ~WellFormedClaimSet(DocOf(calls[r][1].response)))
        => /\ pc[r] = "failed"
           /\ error[r].kind = "SchemaValidationError"
           /\ Len(calls[r]) = 1
           /\ \A i \in 1..Len(calls[r]) : calls[r][i].stage # 2

\* C6 witness: stage 1 answered with two well-formed claims and the run failed.
C6_Witness ==
    \E r \in Runs :
        /\ Len(calls[r]) = 1
        /\ HasDoc(calls[r][1].response)
        /\ "claims" \in DOMAIN DocOf(calls[r][1].response)
        /\ Len(DocOf(calls[r][1].response).claims) = 2
        /\ DocOf(calls[r][1].response).claims[2].polarity = "affirm"
        /\ pc[r] = "failed"

\* C7: once the pipeline has produced the merged result the response is
\* delivered, whether or not the analytics send has completed.
C7_ResponseNotDelayed ==
    \A r \in Runs :
        (tool[r] = "discover" /\ result[r] # None) => response[r] # None

\* C8: a failed analytics send is swallowed: the invocation still succeeds, the
\* send is not repeated, and the discovery result returned is the merge of the
\* two validated stage outputs whatever became of the send.
C8_AnalyticsFailureSwallowed ==
    \A r \in Runs :
        /\ (\E i \in 1..Len(posthog[r]) : posthog[r][i].outcome = "rejected") =>
              /\ pc[r] = "responded"
              /\ error[r] = None
              /\ response[r] # None
              /\ Len(posthog[r]) = 1
        /\ Returned(r) =>
              LET doc == DocOf(calls[r][2].response)
                  res == response[r].structuredContent
              IN /\ res.topic = doc.topic
                 /\ Len(res.conflicts) = Len(doc.conflicts)
                 /\ \A i \in 1..Len(doc.conflicts) :
                       /\ res.conflicts[i].claim_a = doc.conflicts[i].claim_a
                       /\ res.conflicts[i].claim_b = doc.conflicts[i].claim_b
                       /\ res.conflicts[i].conflict_type = doc.conflicts[i].conflict_type
                 /\ res.summary.conflict_count = doc.summary.conflict_count
                 /\ res.claims = SentClaims(r)

\* C8 witness: a discovery invocation returned its result after the capture
\* request was rejected.
C8_Witness ==
    \E r \in Runs :
        /\ Returned(r)
        /\ Len(posthog[r]) = 1
        /\ posthog[r][1].outcome = "rejected"
        /\ Len(response[r].structuredContent.conflicts) > 0

\* C9: a schema-valid stage-2 response with no conflicts and conflict_count 0
\* gives a successful run that returns that empty report with the claims; a run
\* that failed at either stage is reported as a failure, never as a result.
C9_EmptyIsNotFailure ==
    \A r \in Runs : tool[r] = "discover" =>
        /\ (/\ StagePassed(r, 2)
            /\ DocOf(calls[r][2].response).conflicts = <<>>
            /\ DocOf(calls[r][2].response).summary.conflict_count = 0)
           => /\ pc[r] \in {"tracking", "responded"}
              /\ error[r] = None
              /\ result[r].conflicts = <<>>
              /\ result[r].summary.conflict_count = 0
              /\ result[r].claims = SentClaims(r)
              /\ pc[r] = "responded" => response[r].structuredContent = result[r]
        /\ (StageFailed(r, 1) \/ StageFailed(r, 2)) =>
              /\ pc[r] = "failed"
              /\ error[r] # None
              /\ response[r] = None
        /\ pc[r] = "failed" => (error[r] # None /\ response[r] = None)

\* C9 witness: a run returned a report with no conflicts and conflict_count 0.
C9_Witness ==
    \E r \in Runs :
        /\ Returned(r)
        /\ response[r].structuredContent.conflicts = <<>>
        /\ response[r].structuredContent.summary.conflict_count = 0
        /\ Len(response[r].structuredContent.claims) >= 3

\* C10: no two claims of a validated claim set, of the list sent to stage 2 or
\* of the returned list share a claim_id.
C10_UniqueClaimIds ==
    \A r \in Runs :
        /\ claimSet[r] # None => Unique(claimSet[r].claims)
        /\ Len(calls[r]) >= 2 => Unique(SentClaims(r))
        /\ Returned(r) => Unique(response[r].structuredContent.claims)

\* C11: a non-success response of the upstream service, at stage 1 or stage 2,
\* fails the run with an upstream error that carries the response's status and
\* body; the run goes no further with that response (nothing is parsed,
\* validated, merged or returned).
C11_UpstreamErrorCarriesStatus ==
    \A r \in Runs : \A n \in 1..Len(calls[r]) :
        LET res == calls[r][n].response IN
        (res.kind = "http" /\ ~res.ok) =>
            /\ pc[r] = "failed"
            /\ error[r].kind = "UpstreamError"
            /\ error[r].status = res.status
            /\ "body" \in DOMAIN res => error[r].body = res.body
            /\ n = Len(calls[r])
            /\ claimSet[r] = None
            /\ result[r] = None
            /\ response[r] = None

\* C11 witness: stage 1 was answered with HTTP 429 and a body, and the run's
\* error carries both.
C11_Witness ==
    \E r \in Runs :
        /\ Len(calls[r]) = 1
        /\ calls[r][1].response.kind = "http"
        /\ calls[r][1].response.status = 429
        /\ error[r].kind = "UpstreamError"
        /\ error[r].status = 429
        /\ error[r].body = "upstream failure"

\* C12: a success response whose output text is missing, empty or not JSON
\* fails the run at that stage with a parse error, and is never taken for an
\* empty or default claim set or conflict report.
C12_UnparseableTextIsParseError ==
    \A r \in Runs : \A n \in 1..Len(calls[r]) :
        LET res == calls[r][n].response IN
        (/\ res.kind = "http" /\ res.ok /\ res.json
         /\ ("output_text" \in DOMAIN res.data => ~res.data.output_text.json))
        => /\ pc[r] = "failed"
           /\ error[r].kind = "ParseError"
           /\ n = Len(calls[r])
           /\ claimSet[r] = None
           /\ result[r] = None
           /\ response[r] = None

\* C12 witness: stage 2 was answered with a success that has no output text
\* and the run failed with a parse error.
C12_Witness ==
    \E r \in Runs :
        /\ Len(calls[r]) = 2
        /\ calls[r][2].response.kind = "http"
        /\ calls[r][2].response.ok
        /\ calls[r][2].response.json
        /\ "output_text" \notin DOMAIN calls[r][2].response.data
        /\ error[r].kind = "ParseError"

\* C13: a successful discovery invocation emits exactly one analytics event
\* when analytics is configured, carrying the request's topic, domain, depth
\* and max_claims and the conflict_count of the returned report; when the
\* credential or the endpoint is absent no send is attempted and the
\* invocation succeeds all the same.
C13_OneEventPerSuccess ==
    \A r \in Runs : Returned(r) =>
        IF POSTHOG_API_KEY # "" /\ POSTHOG_HOST # ""
        THEN /\ Len(posthog[r]) = 1
             /\ posthog[r][1].body.event = "conflict_lens_run"
             /\ posthog[r][1].body.properties.topic = args[r].topic
             /\ posthog[r][1].body.properties.domain =
                   (IF "domain" \in DOMAIN args[r] THEN args[r].domain ELSE "")
             /\ posthog[r][1].body.properties.depth = args[r].depth
             /\ posthog[r][1].body.properties.max_claims = args[r].max_claims
             /\ posthog[r][1].body.properties.conflict_count =
                   response[r].structuredContent.summary.conflict_count
        ELSE /\ posthog[r] = <<>>
             /\ error[r] = None
             /\ response[r] # None

\* C13 witness: with analytics configured a run returned a report whose
\* conflict_count differs from its number of conflicts, and its one event
\* carries the request's domain.
C13_Witness ==
    \E r \in Runs :
        /\ Returned(r)
        /\ Len(posthog[r]) = 1
        /\ posthog[r][1].body.properties.domain = "nutrition"
        /\ response[r].structuredContent.summary.conflict_count
              # Len(response[r].structuredContent.conflicts)

\* C14: within a run the stage-2 call is issued only after the stage-1 call
\* has returned and its output has passed ClaimSet validation; the two calls
\* of a run are never in flight together.
C14_StagesInSequence ==
    \A r \in Runs :
        /\ \A n \in 1..Len(calls[r]) :
              calls[r][n].stage = 2 =>
                  /\ n = 2
                  /\ calls[r][1].stage = 1
                  /\ calls[r][1].response # Pending
                  /\ StagePassed(r, 1)
        /\ Cardinality({n \in 1..Len(calls[r]) : calls[r][n].response = Pending}) <= 1

\* C14 witness: the stage-2 call is in flight and the stage-1 call was
\* answered with a valid claim set.
C14_Witness ==
    \E r \in Runs :
        /\ pc[r] = "auditing"
        /\ Len(calls[r]) = 2
        /\ calls[r][2].response = Pending
        /\ StagePassed(r, 1)

\* C15: in a run the generative client is called at most once for stage 1 and
\* at most once for stage 2, whatever fails; once the run has failed no
\* further call is issued.
C15_NoRetry ==
    /\ [](\A r \in Runs :
            /\ Len(calls[r]) <= 2
            /\ Cardinality({n \in 1..Len(calls[r]) : calls[r][n].stage = 1}) <= 1
            /\ Cardinality({n \in 1..Len(calls[r]) : calls[r][n].stage = 2}) <= 1)
    /\ [][\A r \in Runs :
            (\E n \in 1..Len(calls[r]) : StageFailed(r, n)) => calls'[r] = calls[r]]_vars

\* C15 witness: the stage-2 fetch was rejected by the network and the run has
\* failed with its two calls made.
C15_Witness ==
    \E r \in Runs :
        /\ pc[r] = "failed"
        /\ Len(calls[r]) = 2
        /\ calls[r][2].response.kind = "network_error"

\* C16: the state of a run only advances INIT, EXTRACTING, (EXTRACTED_VALID,)
\* AUDITING, (AUDITED_VALID,) MERGED in that order, or goes from a
\* non-terminal state to ABORTED; AUDITING is entered only with a validated
\* claim set, MERGED only with a validated report, and MERGED and ABORTED are
\* never left.
C16_RunStateMachine ==
    [][\A r \in Runs : tool'[r] # "attribution" =>
          \/ RunState(r)' = RunState(r)
          \/ /\ RunState(r) \notin {"MERGED", "ABORTED"}
             /\ \/ RunState(r)' = "ABORTED"
                \/ RunState(r) = "INIT" /\ RunState(r)' = "EXTRACTING"
                \/ /\ RunState(r) = "EXTRACTING" /\ RunState(r)' = "AUDITING"
                   /\ StagePassed(r, 1)'
                \/ /\ RunState(r) = "AUDITING" /\ RunState(r)' = "MERGED"
                   /\ StagePassed(r, 2)'
                   /\ result'[r] # None]_vars

\* C16 witness: a run is merged, after both of its stages were validated.
C16_Witness ==
    \E r \in Runs :
        /\ tool[r] = "discover"
        /\ RunState(r) = "MERGED"
        /\ StagePassed(r, 1) /\ StagePassed(r, 2)
        /\ pc[r] = "tracking"

\* C17: with two discovery runs interleaved at will, the claims, the report
\* and the failure of a run come from its own arguments and from the answers
\* to its own calls: what a run holds, sends and returns is built from its own
\* stage outputs, two runs with the same arguments and answers have the same
\* outcome, and a step of one run changes nothing of the other.
C17_RunIsolation ==
    /\ [](\A r \in Runs : tool[r] = "discover" =>
            /\ Len(calls[r]) >= 1 => calls[r][1].input.doc.topic = args[r].topic
            /\ Len(calls[r]) >= 2 =>
                  LET s1 == DocOf(calls[r][1].response).claims IN
                  /\ Len(SentClaims(r)) <= Len(s1)
                  /\ \A i \in 1..Len(SentClaims(r)) :
                        SentClaims(r)[i].claim_id = s1[i].claim_id
                  /\ Len(SentClaims(r)) = Len(s1) \/ Len(SentClaims(r)) = args[r].max_claims
            /\ pc[r] = "auditing" => claims[r] = SentClaims(r)
            /\ result[r] # None =>
                  LET doc == DocOf(calls[r][2].response) IN
                  /\ result[r].claims = SentClaims(r)
                  /\ Len(result[r].conflicts) = Len(doc.conflicts)
                  /\ \A i \in 1..Len(doc.conflicts) :
                        /\ result[r].conflicts[i].claim_a = doc.conflicts[i].claim_a
                        /\ result[r].conflicts[i].claim_b = doc.conflicts[i].claim_b
                  /\ result[r].summary.conflict_count = doc.summary.conflict_count
            /\ Returned(r) => response[r].structuredContent = result[r]
            /\ \A q \in Runs :
                  (/\ tool[q] = "discover"
                   /\ args[q] = args[r]
                   /\ Answers(q) = Answers(r))
                  => (result[q] = result[r] /\ error[q] = error[r]
                      /\ claims[q] = claims[r]))
    /\ [][\A r, q \in Runs :
            (r # q /\ RunView(r)' # RunView(r)) => RunView(q)' = RunView(q)]_vars

\* C17 witness: the two runs are both waiting for their stage-2 answer, each
\* with claims of its own.
C17_Witness ==
    /\ pc["r1"] = "auditing" /\ pc["r2"] = "auditing"
    /\ Len(claims["r1"]) = 3
    /\ Len(claims["r2"]) = 5
    /\ claims["r1"][2].claim_id # claims["r2"][2].claim_id

\* C18: the anti-fabrication directive is in the instructions of both stages
\* of every run, in the same variant: the strict one exactly when
\* strict_no_sources is true, the weaker one otherwise.
C18_SameDirectiveBothStages ==
    \A r \in Runs : \A n \in 1..Len(calls[r]) :
        LET instr == calls[r][n].instructions
            strict == \E k \in 1..Len(instr) :
                instr[k] = "Do NOT fabricate citations, paper titles, authors, journals, or DOIs."
            weak == \E k \in 1..Len(instr) : instr[k] = "Do not fabricate citations."
        IN IF args[r].strict_no_sources THEN strict /\ ~weak ELSE weak /\ ~strict

\* C18 witness: a run with strict_no_sources false has sent both of its
\* requests.
C18_Witness ==
    \E r \in Runs :
        /\ tool[r] = "discover"
        /\ Len(calls[r]) = 2
        /\ ~args[r].strict_no_sources

\* C19: a discovery invocation whose run failed has sent nothing to the
\* telemetry sink; an analytics event is sent only for a run that has its
\* merged result.
C19_NoEventForFailedRun ==
    \A r \in Runs : tool[r] = "discover" =>
        /\ pc[r] = "failed" => posthog[r] = <<>>
        /\ posthog[r] # <<>> =>
              /\ result[r] # None
              /\ StagePassed(r, 1) /\ StagePassed(r, 2)

\* C19 witness: analytics is configured and a run has failed at stage 2
\* without any capture request.
C19_Witness ==
    \E r \in Runs :
        /\ POSTHOG_API_KEY # "" /\ POSTHOG_HOST # ""
        /\ tool[r] = "discover"
        /\ pc[r] = "failed"
        /\ Len(calls[r]) = 2
        /\ posthog[r] = <<>>

\* C20: when every upstream call that was issued is answered in the end, every
\* discovery run that started arrives at its merged result or at its failure.
C20_RunTerminates ==
    \A r \in Runs :
        (tool[r] = "discover" /\ pc[r] \in {"extracting", "auditing"})
            ~> (result[r] # None \/ pc[r] = "failed")

\* C20 witness: a run has its merged result while its capture request is
\* still unanswered.
C20_Witness ==
    \E r \in Runs :
        /\ tool[r] = "discover"
        /\ result[r] # None
        /\ pc[r] = "tracking"
        /\ posthog[r][1].outcome = "in_flight"
        /\ Len(result[r].claims) = 5

====
